---- MODULE Spec2Model ----
(***************************************************************************)
(* A model of GrPipeline (src/gpu/GrPipeline.cpp): construction by init    *)
(* and by the blend-mode constructor, dependency registration by           *)
(* addDependenciesTo, and the comparison AreEqual.                         *)
(*                                                                         *)
(* Pointers are object names (strings) and nullptr is Null.  The flag word *)
(* is the set of the flag bits that are set: a | b is a \cup b and a & b   *)
(* is membership.  Collaborators whose code is not in GrPipeline.cpp       *)
(* (processors, factories, stencil settings) are small value tables.       *)
(***************************************************************************)
EXTENDS Integers, Sequences, FiniteSets, TLC

Null == "nullptr"
Unset == "uninitialized"

(* ------------------------------ bounds -------------------------------- *)
MaxColor == 2
MaxCoverage == 1
MaxElim == 3
MaxDepCalls == 1

(* ------------------------------ flags --------------------------------- *)
kHWAntialias_Flag == "kHWAntialias_Flag"
kDisableOutputConversionToSRGB_Flag == "kDisableOutputConversionToSRGB_Flag"
kAllowSRGBInputs_Flag == "kAllowSRGBInputs_Flag"
kUsesDistanceVectorField_Flag == "kUsesDistanceVectorField_Flag"
kHasStencilClip_Flag == "kHasStencilClip_Flag"
kStencilEnabled_Flag == "kStencilEnabled_Flag"

(* --------------------------- collaborators ---------------------------- *)
Slots == {"a", "b"}
RenderTargets == {"rtMixed", "rtPlain"}

\* GrRenderTarget::isMixedSampled
isMixedSampled(rt) == rt = "rtMixed"

\* The fragment-processor objects.  fpA and fpA2 are two objects with the same
\* class and parameters; the others differ from them and from each other.
ColorFPs == {"fpA", "fpA2", "fpB"}
CoverageFPs == {"fpCov"}
ClipFP == "fpClip"

\* The value of a fragment processor: its class and parameters (key) and the
\* textures of its samplers, in TextureAccessIter order.
FragmentProcessor(fp) ==
    CASE fp = "fpA"    -> [key |-> "A",    textures |-> <<"t1">>]
      [] fp = "fpA2"   -> [key |-> "A",    textures |-> <<"t1">>]
      [] fp = "fpB"    -> [key |-> "B",    textures |-> <<"t1", "t2">>]
      [] fp = "fpCov"  -> [key |-> "Cov",  textures |-> << >>]
      [] fp = "fpClip" -> [key |-> "Clip", textures |-> <<"t3">>]

\* GrFragmentProcessor::isEqual: equality by value, not by identity.
FPisEqual(x, y) == FragmentProcessor(x) = FragmentProcessor(y)

\* GrUserStencilSettings::isDisabled(hasStencilClip).  kUnused is the
\* canonical unused instance; kInClip only tests the clip bit, so it is a
\* no-op without a stencil clip; kAlways always touches the stencil buffer.
UserStencils == {"kUnused", "kInClip", "kAlways"}
isDisabled(settings, hasStencilClip) ==
    CASE settings = "kUnused" -> TRUE
      [] settings = "kInClip" -> ~hasStencilClip
      [] settings = "kAlways" -> FALSE

\* A transfer processor, by value: what made it and from which inputs.
XferProcessor(kind, coverage, hasMixedSamples) ==
    [kind |-> kind, coverage |-> coverage, hasMixedSamples |-> hasMixedSamples]

\* A null sk_sp<GrXferProcessor>.
NullXP == XferProcessor(Null, "none", FALSE)

\* An absent optional argument: args.fAppliedClip and args.fAnalysis are
\* pointers, nullptr when there is no clip or no analysis.
NoClip ==
    [applied |-> FALSE, scissorState |-> "disabled", windowRectsState |-> "disabled",
     hasStencilClip |-> FALSE, clipCoverageFragmentProcessor |-> Null]

NoAnalysis == [present |-> FALSE, eliminationCount |-> 0, inputColorIgnored |-> FALSE]

\* GrXPFactory::createXferProcessor: never nullptr.
createXferProcessor(xpFactory, coverage, hasMixedSamples) ==
    XferProcessor(xpFactory, coverage, hasMixedSamples)

\* GrPorterDuffXPFactory::CreateSrcOverXferProcessor: nullptr unless the
\* coverage is LCD (src-over is then done by the hardware blend).
CreateSrcOverXferProcessor(coverage, hasMixedSamples) ==
    IF coverage # "lcd" THEN NullXP
    ELSE XferProcessor("srcOver", coverage, hasMixedSamples)

\* GrPorterDuffXPFactory::SimpleSrcOverXP, what getXferProcessor() returns
\* for a pipeline whose fXferProcessor is nullptr.
SimpleSrcOverXP == XferProcessor("srcOver", "single", FALSE)

\* GrPorterDuffXPFactory::CreateNoCoverageXP(blendmode)
CreateNoCoverageXP(blendmode) == XferProcessor(blendmode, "none", FALSE)

\* GrXferProcessor::isEqual: equality by value.
XPisEqual(x, y) == x = y

(* ------------------------------ helpers ------------------------------- *)
SkTMax(x, y) == IF x > y THEN x ELSE y

SeqsUpTo(S, n) == UNION {[1..k -> S] : k \in 0..n}

(* ------------------------- GrPipeline::init --------------------------- *)
\* InitFlags without lines 33-35: the clip's stencil clip is forgotten.
InitFlags_NoClipStencil(args) ==
    LET f0 == args.fFlags
        f2 == IF args.fProcessors.usesDistanceVectorField
              THEN f0 \cup {kUsesDistanceVectorField_Flag} ELSE f0
        f3 == IF args.fProcessors.disableOutputConversionToSRGB
              THEN f2 \cup {kDisableOutputConversionToSRGB_Flag} ELSE f2
        f4 == IF args.fProcessors.allowSRGBInputs
              THEN f3 \cup {kAllowSRGBInputs_Flag} ELSE f3
    IN  IF ~isDisabled(args.fUserStencil, kHasStencilClip_Flag \in f4)
        THEN f4 \cup {kStencilEnabled_Flag} ELSE f4

\* Lines 30-49: the flag word.
InitFlags(args) ==
    LET f0 == args.fFlags
        f1 == IF args.fAppliedClip.applied /\ args.fAppliedClip.hasStencilClip
              THEN f0 \cup {kHasStencilClip_Flag} ELSE f0
        f2 == IF args.fProcessors.usesDistanceVectorField
              THEN f1 \cup {kUsesDistanceVectorField_Flag} ELSE f1
        f3 == IF args.fProcessors.disableOutputConversionToSRGB
              THEN f2 \cup {kDisableOutputConversionToSRGB_Flag} ELSE f2
        f4 == IF args.fProcessors.allowSRGBInputs
              THEN f3 \cup {kAllowSRGBInputs_Flag} ELSE f3
    IN  IF ~isDisabled(args.fUserStencil, kHasStencilClip_Flag \in f4)
        THEN f4 \cup {kStencilEnabled_Flag} ELSE f4

\* Lines 31-37: scissor and window rectangles come from the clip, or stay
\* default-constructed.
InitScissorState(args) ==
    IF args.fAppliedClip.applied THEN args.fAppliedClip.scissorState ELSE "disabled"

InitWindowRectsState(args) ==
    IF args.fAppliedClip.applied THEN args.fAppliedClip.windowRectsState ELSE "disabled"

\* HasMixedSamples reading the stencil-enabled bit of the requested flags
\* instead of the pipeline's.
HasMixedSamples_RequestedFlags(args, fFlags) ==
    LET isHWAA == kHWAntialias_Flag \in args.fFlags
    IN  isMixedSampled(args.fRenderTarget)
            /\ (isHWAA \/ kStencilEnabled_Flag \in args.fFlags)

\* Lines 55-60.  isStencilEnabled() reads the flag word just computed.
HasMixedSamples(args, fFlags) ==
    LET isHWAA == kHWAntialias_Flag \in args.fFlags
    IN  isMixedSampled(args.fRenderTarget) /\ (isHWAA \/ kStencilEnabled_Flag \in fFlags)

\* Lines 61-72: which creator is called, with which hasMixedSamples, and
\* the processor it returns.
ResolveXferProcessor(args, hasMixedSamples) ==
    LET xpFactory == args.fProcessors.xpFactory
    IN  IF xpFactory # Null
        THEN [path |-> "xpFactory", hasMixedSamples |-> hasMixedSamples,
              xp |-> createXferProcessor(xpFactory, args.fInputCoverage, hasMixedSamples)]
        ELSE [path |-> "srcOver", hasMixedSamples |-> hasMixedSamples,
              xp |-> CreateSrcOverXferProcessor(args.fInputCoverage, hasMixedSamples)]

\* ColorFPsToEliminate without lines 88-92: an ignored input color does
\* not eliminate all color processors.
ColorFPsToEliminate_NoIgnoredCase(args) ==
    IF args.fAnalysis.present
    THEN SkTMax(args.fAnalysis.eliminationCount, 0)
    ELSE 0

\* Lines 81-93.
ColorFPsToEliminate(args) ==
    IF args.fAnalysis.present
    THEN LET reported == args.fAnalysis.eliminationCount
             clamped == SkTMax(reported, 0)
         IN  IF args.fAnalysis.inputColorIgnored
             THEN Len(args.fProcessors.color)
             ELSE clamped
    ELSE 0

\* Line 97.
NumColorProcessors(args) == Len(args.fProcessors.color) - ColorFPsToEliminate(args)

\* The clip's coverage processor, nullptr without a clip (lines 100, 115-116).
ClipCoverageFP(args) ==
    IF args.fAppliedClip.applied THEN args.fAppliedClip.clipCoverageFragmentProcessor
    ELSE Null

\* Lines 98-102.
NumTotalProcessors(args) ==
    LET n == NumColorProcessors(args) + Len(args.fProcessors.coverage)
    IN  IF ClipCoverageFP(args) # Null THEN n + 1 ELSE n

\* Lines 105-109: the loop over the color processors.  i and currFPIdx are
\* the code's 0-based indices; a write is [idx, fp].
RECURSIVE FillColor(_, _, _, _)
FillColor(procs, i, currFPIdx, writes) ==
    IF i < Len(procs.color)
    THEN FillColor(procs, i + 1, currFPIdx + 1,
                   Append(writes, [idx |-> currFPIdx, fp |-> procs.color[i + 1]]))
    ELSE writes

\* Lines 111-114: the loop over the coverage processors.
RECURSIVE FillCoverage(_, _, _, _)
FillCoverage(procs, i, currFPIdx, writes) ==
    IF i < Len(procs.coverage)
    THEN FillCoverage(procs, i + 1, currFPIdx + 1,
                      Append(writes, [idx |-> currFPIdx, fp |-> procs.coverage[i + 1]]))
    ELSE writes

\* Lines 104-119: every write fFragmentProcessors[currFPIdx].reset(fp), in
\* order.  currFPIdx advances by one per write, so it is the number of writes
\* made so far.
FillWrites(args) ==
    LET w1 == FillColor(args.fProcessors, ColorFPsToEliminate(args), 0, << >>)
        w2 == FillCoverage(args.fProcessors, 0, Len(w1), w1)
    IN  IF ClipCoverageFP(args) # Null
        THEN Append(w2, [idx |-> Len(w2), fp |-> ClipCoverageFP(args)])
        ELSE w2

\* A write outside the array that reset(count) allocated, or a negative
\* count: undefined behaviour.
FillUndefined(count, writes) ==
    count < 0 \/ \E j \in 1..Len(writes) : writes[j].idx >= count

\* The array after reset(count) and the writes that land inside it (an
\* entry no write reaches stays a null handle).
FilledArray(count, writes) ==
    [k \in 1..SkTMax(count, 0) |->
        LET ws == {j \in 1..Len(writes) : writes[j].idx = k - 1}
        IN  IF ws = {} THEN Null
            ELSE writes[CHOOSE j \in ws : \A j2 \in ws : j2 <= j].fp]

\* Lines 21-120: the pipeline init builds and what it did on the way.
InitRun(args) ==
    LET fFlags == InitFlags(args)
        hasMixedSamples == HasMixedSamples(args, fFlags)
        resolved == ResolveXferProcessor(args, hasMixedSamples)
        hasDst == args.fDstTexture.texture # Null
        count == NumTotalProcessors(args)
        writes == FillWrites(args)
    IN  [pipeline |->
            [fRenderTarget |-> args.fRenderTarget,
             fScissorState |-> InitScissorState(args),
             fWindowRectsState |-> InitWindowRectsState(args),
             fUserStencilSettings |-> args.fUserStencil,
             fDrawFace |-> args.fDrawFace,
             fFlags |-> fFlags,
             fXferProcessor |-> resolved.xp,
             fFragmentProcessors |-> FilledArray(count, writes),
             fNumColorProcessors |-> NumColorProcessors(args),
             fDstTexture |-> IF hasDst THEN args.fDstTexture.texture ELSE Null,
             fDstTextureOffset |-> IF hasDst THEN args.fDstTexture.offset ELSE Unset],
         log |->
            [args |-> args,
             xpPath |-> resolved.path,
             hasMixedSamples |-> resolved.hasMixedSamples,
             colorFPsToEliminate |-> ColorFPsToEliminate(args),
             allocated |-> count,
             writes |-> writes],
         undefined |-> FillUndefined(count, writes)]

\* Lines 141-151: GrPipeline(rt, blendmode).
BlendModePipeline(rt, blendmode) ==
    [fRenderTarget |-> rt,
     fScissorState |-> "disabled",
     fWindowRectsState |-> "disabled",
     fUserStencilSettings |-> "kUnused",
     fDrawFace |-> "kBoth",
     fFlags |-> {},
     fXferProcessor |-> CreateNoCoverageXP(blendmode),
     fFragmentProcessors |-> << >>,
     fNumColorProcessors |-> 0,
     fDstTexture |-> Null,
     fDstTextureOffset |-> Unset]

(* --------------------- GrPipeline::addDependenciesTo ------------------ *)
\* Lines 122-128: one addDependency per sampler of proc, in iterator order.
\* k is the number of samplers the iterator has already returned.
RECURSIVE add_dependencies_for_processor(_, _, _)
add_dependencies_for_processor(proc, k, oplist) ==
    IF k < Len(FragmentProcessor(proc).textures)
    THEN add_dependencies_for_processor(
             proc, k + 1, Append(oplist, FragmentProcessor(proc).textures[k + 1]))
    ELSE oplist

\* Lines 131-133: the loop over fFragmentProcessors (i is 0-based).
RECURSIVE AddProcessorDependencies(_, _, _)
AddProcessorDependencies(p, i, oplist) ==
    IF i < Len(p.fFragmentProcessors)
    THEN AddProcessorDependencies(
             p, i + 1, add_dependencies_for_processor(p.fFragmentProcessors[i + 1], 0, oplist))
    ELSE oplist

\* AddDependencies without lines 135-138: the destination texture is not
\* registered.
AddDependencies_NoDstTexture(p, oplist) == AddProcessorDependencies(p, 0, oplist)

\* Lines 130-139: the op-list's addDependency calls after the call.
AddDependencies(p, oplist) ==
    LET afterProcessors == AddProcessorDependencies(p, 0, oplist)
    IN  IF p.fDstTexture # Null THEN Append(afterProcessors, p.fDstTexture)
        ELSE afterProcessors

(* ------------------------ GrPipeline::AreEqual ------------------------ *)
\* GrPipeline::getXferProcessor(): the simple src-over processor stands in
\* for a null fXferProcessor.
getXferProcessor(p) ==
    IF p.fXferProcessor # NullXP THEN p.fXferProcessor ELSE SimpleSrcOverXP

\* Lines 176-180: the loop over a's fragment processors, from index i.
RECURSIVE FragmentProcessorsEqualFrom(_, _, _)
FragmentProcessorsEqualFrom(a, b, i) ==
    IF i < Len(a.fFragmentProcessors)
    THEN IF ~FPisEqual(a.fFragmentProcessors[i + 1], b.fFragmentProcessors[i + 1])
         THEN FALSE
         ELSE FragmentProcessorsEqualFrom(a, b, i + 1)
    ELSE TRUE

\* AreEqual testing only a's transfer processor for null on line 170.
AreEqual_XferOfAOnly(a, b) ==
    IF \/ a.fRenderTarget # b.fRenderTarget
       \/ Len(a.fFragmentProcessors) # Len(b.fFragmentProcessors)
       \/ a.fNumColorProcessors # b.fNumColorProcessors
       \/ a.fScissorState # b.fScissorState
       \/ a.fWindowRectsState # b.fWindowRectsState
       \/ a.fFlags # b.fFlags
       \/ a.fUserStencilSettings # b.fUserStencilSettings
       \/ a.fDrawFace # b.fDrawFace
    THEN FALSE
    ELSE IF /\ a.fXferProcessor # NullXP
            /\ ~XPisEqual(getXferProcessor(a), getXferProcessor(b))
         THEN FALSE
         ELSE FragmentProcessorsEqualFrom(a, b, 0)

\* AreEqual without line 160: the color-processor counts are not compared.
AreEqual_NoColorCount(a, b) ==
    IF \/ a.fRenderTarget # b.fRenderTarget
       \/ Len(a.fFragmentProcessors) # Len(b.fFragmentProcessors)
       \/ a.fScissorState # b.fScissorState
       \/ a.fWindowRectsState # b.fWindowRectsState
       \/ a.fFlags # b.fFlags
       \/ a.fUserStencilSettings # b.fUserStencilSettings
       \/ a.fDrawFace # b.fDrawFace
    THEN FALSE
    ELSE IF /\ (a.fXferProcessor # NullXP \/ b.fXferProcessor # NullXP)
            /\ ~XPisEqual(getXferProcessor(a), getXferProcessor(b))
         THEN FALSE
         ELSE FragmentProcessorsEqualFrom(a, b, 0)

\* Lines 155-182.
AreEqual(a, b) ==
    IF \/ a.fRenderTarget # b.fRenderTarget
       \/ Len(a.fFragmentProcessors) # Len(b.fFragmentProcessors)
       \/ a.fNumColorProcessors # b.fNumColorProcessors
       \/ a.fScissorState # b.fScissorState
       \/ a.fWindowRectsState # b.fWindowRectsState
       \/ a.fFlags # b.fFlags
       \/ a.fUserStencilSettings # b.fUserStencilSettings
       \/ a.fDrawFace # b.fDrawFace
    THEN FALSE
    ELSE IF /\ (a.fXferProcessor # NullXP \/ b.fXferProcessor # NullXP)
            /\ ~XPisEqual(getXferProcessor(a), getXferProcessor(b))
         THEN FALSE
         ELSE FragmentProcessorsEqualFrom(a, b, 0)

(* --------------------------- input domains ---------------------------- *)
DrawFaces == {"kBoth", "kCCW", "kCW"}
InputCoverages == {"single", "lcd"}
XPFactories == {Null, "srcOver", "custom"}
BlendModes == {"kSrc", "kSrcOver"}

\* args.fFlags is a plain uint32_t: any bit may be set in it.
RequestedFlags ==
    (SUBSET {kHWAntialias_Flag, kHasStencilClip_Flag, kStencilEnabled_Flag})
    \cup {{kAllowSRGBInputs_Flag}, {kAllowSRGBInputs_Flag, kHWAntialias_Flag}}

AppliedClips ==
    {NoClip} \cup
    [applied : {TRUE}, scissorState : {"disabled", "rect"},
     windowRectsState : {"disabled", "exclusive"}, hasStencilClip : BOOLEAN,
     clipCoverageFragmentProcessor : {Null, ClipFP}]

FPClips ==
    {c \in AppliedClips : c.scissorState = "disabled" /\ c.windowRectsState = "disabled"
                          /\ ~c.hasStencilClip}

\* The analysis may report any count, also a negative one or one above the
\* number of color processors: init checks neither.
Analyses ==
    {NoAnalysis} \cup
    [present : {TRUE}, eliminationCount : (0 - 1)..MaxElim, inputColorIgnored : BOOLEAN]

DstTextures ==
    {[texture |-> Null, offset |-> "(0,0)"], [texture |-> "tDst", offset |-> "(0,0)"],
     [texture |-> "tDst", offset |-> "(3,4)"]}

BaseProcessors ==
    [color |-> <<"fpA">>, coverage |-> <<"fpCov">>, xpFactory |-> Null,
     usesDistanceVectorField |-> FALSE, disableOutputConversionToSRGB |-> FALSE,
     allowSRGBInputs |-> FALSE]

\* Processor sets that differ in their fragment processors only.
FPProcessorSets ==
    {[BaseProcessors EXCEPT !.color = col, !.coverage = cov] :
        col \in SeqsUpTo(ColorFPs, MaxColor), cov \in SeqsUpTo(CoverageFPs, MaxCoverage)}

\* Processor sets that differ in their factory and boolean queries only.
FlagProcessorSets ==
    {[BaseProcessors EXCEPT !.xpFactory = f, !.usesDistanceVectorField = dvf,
                            !.disableOutputConversionToSRGB = srgbOut,
                            !.allowSRGBInputs = srgbIn] :
        f \in XPFactories, dvf \in BOOLEAN, srgbOut \in BOOLEAN, srgbIn \in BOOLEAN}

\* Processor sets for the comparison: the same processors, value-equal
\* ones, other ones, more, fewer, and the same number split differently
\* between color and coverage.
EqProcessorSets ==
    {[BaseProcessors EXCEPT !.color = col, !.coverage = cov] :
        col \in {<< >>, <<"fpA">>, <<"fpA2">>, <<"fpB">>, <<"fpA", "fpB">>, <<"fpB", "fpA">>,
                 <<"fpA", "fpCov">>},
        cov \in {<< >>, <<"fpCov">>, <<"fpB">>}}

BaseArgs ==
    [fRenderTarget |-> "rtMixed", fFlags |-> {}, fAppliedClip |-> NoClip,
     fProcessors |-> BaseProcessors, fUserStencil |-> "kUnused", fDrawFace |-> "kBoth",
     fInputCoverage |-> "single", fAnalysis |-> NoAnalysis,
     fDstTexture |-> [texture |-> Null, offset |-> "(0,0)"]]

\* Records that vary everything the flag word, the clip state and the
\* transfer processor are computed from.
FlagArgs ==
    {[BaseArgs EXCEPT !.fRenderTarget = rt, !.fFlags = fl, !.fAppliedClip = c,
                      !.fProcessors = pr, !.fUserStencil = us, !.fInputCoverage = cov] :
        rt \in RenderTargets, fl \in RequestedFlags, c \in AppliedClips,
        pr \in FlagProcessorSets, us \in UserStencils, cov \in InputCoverages}

\* Records that vary everything the fragment-processor sequence and the
\* destination texture are computed from.
FPArgs ==
    {[BaseArgs EXCEPT !.fProcessors = pr, !.fAnalysis = an, !.fAppliedClip = c,
                      !.fDstTexture = d] :
        pr \in FPProcessorSets, an \in Analyses, c \in FPClips, d \in DstTextures}

InitArgs == FlagArgs \cup FPArgs

\* Records that differ from BaseArgs in one argument: two of them differ in
\* at most two.
EqArgs ==
    {[BaseArgs EXCEPT !.fRenderTarget = rt] : rt \in RenderTargets}
    \cup {[BaseArgs EXCEPT !.fFlags = fl] : fl \in RequestedFlags}
    \cup {[BaseArgs EXCEPT !.fAppliedClip = c] : c \in AppliedClips}
    \cup {[BaseArgs EXCEPT !.fProcessors = pr] : pr \in EqProcessorSets \cup FlagProcessorSets}
    \cup {[BaseArgs EXCEPT !.fUserStencil = us] : us \in UserStencils}
    \cup {[BaseArgs EXCEPT !.fDrawFace = df] : df \in DrawFaces}
    \cup {[BaseArgs EXCEPT !.fInputCoverage = cov] : cov \in InputCoverages}
    \cup {[BaseArgs EXCEPT !.fAnalysis = an] : an \in Analyses}
    \cup {[BaseArgs EXCEPT !.fDstTexture = d] : d \in DstTextures}

(* ------------------------------- state -------------------------------- *)
VARIABLES
    pipe,       \* the constructed pipelines, by slot
    initLog,    \* for a pipeline built by init: its arguments and what init did
    opList,     \* per render target: the addDependency calls on its last op-list
    depCalls,   \* the number of addDependenciesTo calls made
    lastCall,   \* the last addDependenciesTo or AreEqual call and its result
    crashed     \* undefined behaviour ended the program

vars == <<pipe, initLog, opList, depCalls, lastCall, crashed>>

Init ==
    /\ pipe = << >>
    /\ initLog = << >>
    /\ opList = [rt \in RenderTargets |-> << >>]
    /\ depCalls = 0
    /\ lastCall = [op |-> "none"]
    /\ crashed = FALSE

\* GrPipeline::init on a pipeline under construction.  When the fill leaves
\* the allocated array the program either dies there or goes on with the
\* writes that landed inside it.
init(s, args) ==
    /\ ~crashed
    /\ s \notin DOMAIN pipe
    /\ LET r == InitRun(args)
       IN  \/ /\ pipe' = pipe @@ (s :> r.pipeline)
              /\ initLog' = initLog @@ (s :> r.log)
              /\ UNCHANGED crashed
           \/ /\ r.undefined
              /\ crashed' = TRUE
              /\ UNCHANGED <<pipe, initLog>>
    /\ UNCHANGED <<opList, depCalls, lastCall>>

\* GrPipeline::GrPipeline(rt, blendmode).
Construct(s, rt, blendmode) ==
    /\ ~crashed
    /\ s \notin DOMAIN pipe
    /\ pipe' = pipe @@ (s :> BlendModePipeline(rt, blendmode))
    /\ UNCHANGED <<initLog, opList, depCalls, lastCall, crashed>>

\* addDependenciesTo that gives up the pipeline's destination texture once
\* it is registered.
addDependenciesTo_ReleasesDst(s, rt) ==
    /\ ~crashed
    /\ s \in DOMAIN pipe
    /\ depCalls < MaxDepCalls
    /\ opList' = [opList EXCEPT ![rt] = AddDependencies(pipe[s], @)]
    /\ depCalls' = depCalls + 1
    /\ lastCall' = [op |-> "addDependenciesTo", slot |-> s, rt |-> rt,
                    before |-> opList[rt]]
    /\ pipe' = [pipe EXCEPT ![s].fDstTexture = Null]
    /\ UNCHANGED <<initLog, crashed>>

\* GrPipeline::addDependenciesTo(rt); rt has a last op-list (asserted).
addDependenciesTo(s, rt) ==
    /\ ~crashed
    /\ s \in DOMAIN pipe
    /\ depCalls < MaxDepCalls
    /\ opList' = [opList EXCEPT ![rt] = AddDependencies(pipe[s], @)]
    /\ depCalls' = depCalls + 1
    /\ lastCall' = [op |-> "addDependenciesTo", slot |-> s, rt |-> rt,
                    before |-> opList[rt]]
    /\ UNCHANGED <<pipe, initLog, crashed>>

\* GrPipeline::AreEqual(a, b) on two distinct pipelines (asserted).
CallAreEqual(x, y) ==
    /\ ~crashed
    /\ x # y
    /\ x \in DOMAIN pipe
    /\ y \in DOMAIN pipe
    /\ lastCall' = [op |-> "AreEqual", a |-> x, b |-> y,
                    result |-> AreEqual(pipe[x], pipe[y])]
    /\ UNCHANGED <<pipe, initLog, opList, depCalls, crashed>>

\* One pipeline, built from any record of InitArgs.
Next ==
    \/ /\ "a" \notin DOMAIN pipe
       /\ \E args \in InitArgs : init("a", args)
    \/ /\ "a" \notin DOMAIN pipe
       /\ \E rt \in RenderTargets, bm \in BlendModes : Construct("a", rt, bm)
    \/ \E rt \in RenderTargets : addDependenciesTo("a", rt)

Spec == Init /\ [][Next]_vars

\* Two pipelines, each built from a record of EqArgs, and compared.
NextEq ==
    \/ \E s \in Slots \ DOMAIN pipe : \E args \in EqArgs : init(s, args)
    \/ \E s \in Slots \ DOMAIN pipe :
          \E rt \in RenderTargets, bm \in BlendModes : Construct(s, rt, bm)
    \/ \E s \in Slots, rt \in RenderTargets : addDependenciesTo(s, rt)
    \/ \E x \in Slots, y \in Slots : CallAreEqual(x, y)

SpecEq == Init /\ [][NextEq]_vars

(* ------------------------------- claims ------------------------------- *)
\* The pipelines built by init.
Built == DOMAIN initLog

\* What the analysis of a record reports, clamped at 0; 0 without analysis.
ReportedElimination(args) ==
    IF ~args.fAnalysis.present THEN 0
    ELSE IF args.fAnalysis.eliminationCount < 0 THEN 0
    ELSE args.fAnalysis.eliminationCount

InputColorIgnored(args) == args.fAnalysis.present /\ args.fAnalysis.inputColorIgnored

\* The number of leading color processors a record asks init to drop.
Eliminated(args) ==
    IF InputColorIgnored(args) THEN Len(args.fProcessors.color)
    ELSE ReportedElimination(args)

\* The clip coverage processor of a record, as a sequence of 0 or 1 entries.
ClipTail(args) ==
    IF args.fAppliedClip.applied /\ args.fAppliedClip.clipCoverageFragmentProcessor # Null
    THEN <<args.fAppliedClip.clipCoverageFragmentProcessor>>
    ELSE << >>

\* C1 as stated: after init the color-processor count is the original count
\* minus the count the analysis reports (clamped at 0, 0 without analysis),
\* and it is 0 whenever the analysis declares the input color ignored.  Read
\* here for the records whose reported count does not exceed the number of
\* color processors.
C1_AsStated ==
    \A s \in Built :
        LET args == initLog[s].args
        IN  ReportedElimination(args) <= Len(args.fProcessors.color) =>
                /\ pipe[s].fNumColorProcessors
                       = Len(args.fProcessors.color) - ReportedElimination(args)
                /\ InputColorIgnored(args) => pipe[s].fNumColorProcessors = 0

\* C1 amended: after init the color-processor count is 0 when the analysis
\* declares the input color ignored, and otherwise the original count minus
\* the count the analysis reports (clamped at 0, 0 without analysis).
C1_NumColorProcessors ==
    \A s \in Built :
        LET args == initLog[s].args
        IN  IF InputColorIgnored(args)
            THEN pipe[s].fNumColorProcessors = 0
            ELSE pipe[s].fNumColorProcessors
                     = Len(args.fProcessors.color) - ReportedElimination(args)

\* One of two color processors is eliminated and one survives.
C1_Witness ==
    \E s \in Built :
        LET args == initLog[s].args
        IN  /\ args.fAnalysis.present /\ ~args.fAnalysis.inputColorIgnored
            /\ args.fAnalysis.eliminationCount = 1
            /\ Len(args.fProcessors.color) = 2
            /\ pipe[s].fNumColorProcessors = 1

\* C2: after init the fragment-processor sequence is the color processors
\* from the elimination index on, then all coverage processors, then the
\* clip's coverage processor if there is one, each group in its order.
C2_SequenceOrder ==
    \A s \in Built :
        LET args == initLog[s].args
            color == args.fProcessors.color
        IN  pipe[s].fFragmentProcessors
                = SubSeq(color, Eliminated(args) + 1, Len(color))
                  \o args.fProcessors.coverage \o ClipTail(args)

\* C3: after init the stencil-enabled flag is set exactly when
\* userStencilSettings.isDisabled(stencil-clip flag) is false.
C3_StencilEnabledDerived ==
    \A s \in Built :
        (kStencilEnabled_Flag \in pipe[s].fFlags)
            <=> ~isDisabled(pipe[s].fUserStencilSettings,
                            kHasStencilClip_Flag \in pipe[s].fFlags)

\* The number of samplers of the first n processors of a sequence.
RECURSIVE SamplerCount(_, _)
SamplerCount(fps, n) ==
    IF n = 0 THEN 0
    ELSE SamplerCount(fps, n - 1) + Len(FragmentProcessor(fps[n]).textures)

\* C4: one addDependenciesTo(rt) appends to rt's op-list exactly one
\* dependency per sampler of every fragment processor, in sequence order and
\* naming that sampler's texture, and then the destination texture if the
\* pipeline has one.
C4_Dependencies ==
    lastCall.op = "addDependenciesTo" =>
        LET p == pipe[lastCall.slot]
            fps == p.fFragmentProcessors
            base == Len(lastCall.before)
            now == opList[lastCall.rt]
            hasDst == p.fDstTexture # Null
        IN  /\ Len(now) = base + SamplerCount(fps, Len(fps)) + (IF hasDst THEN 1 ELSE 0)
            /\ SubSeq(now, 1, base) = lastCall.before
            /\ \A i \in 1..Len(fps) :
                   \A m \in 1..Len(FragmentProcessor(fps[i]).textures) :
                       now[base + SamplerCount(fps, i - 1) + m]
                           = FragmentProcessor(fps[i]).textures[m]
            /\ hasDst => now[Len(now)] = p.fDstTexture

\* Three processors with four samplers and a destination texture: five
\* registrations, the destination texture last.
C4_Witness ==
    /\ lastCall.op = "addDependenciesTo"
    /\ lastCall.slot \in Built
    /\ Len(pipe[lastCall.slot].fFragmentProcessors) = 3
    /\ pipe[lastCall.slot].fDstTexture = "tDst"
    /\ opList[lastCall.rt] = <<"t1", "t1", "t2", "t3", "tDst">>

\* C5: AreEqual gives the same answer with its arguments exchanged, and two
\* pipelines built by init from identical records compare equal.
C5_SymmetricReflexive ==
    /\ \A x \in DOMAIN pipe : \A y \in DOMAIN pipe \ {x} :
           AreEqual(pipe[x], pipe[y]) = AreEqual(pipe[y], pipe[x])
    /\ lastCall.op = "AreEqual" =>
           /\ lastCall.result = AreEqual(pipe[lastCall.b], pipe[lastCall.a])
           /\ (/\ lastCall.a \in Built /\ lastCall.b \in Built
               /\ initLog[lastCall.a].args = initLog[lastCall.b].args)
                  => lastCall.result

\* Two pipelines built from the same record, with processors in them, were
\* compared and found equal.
C5_Witness ==
    /\ lastCall.op = "AreEqual"
    /\ lastCall.a \in Built /\ lastCall.b \in Built
    /\ initLog[lastCall.a].args = initLog[lastCall.b].args
    /\ Len(pipe[lastCall.a].fFragmentProcessors) = 2
    /\ lastCall.result

\* C6: AreEqual(a, b) is true exactly when render target, processor count,
\* color-processor count, scissor, window rectangles, flags, stencil
\* settings and draw face are the same, the transfer processors are
\* value-equal if either side has one, and the fragment processors are
\* value-equal index by index; nothing else (the destination texture, its
\* offset) counts.
C6_EqualIff ==
    lastCall.op = "AreEqual" =>
        LET a == pipe[lastCall.a]
            b == pipe[lastCall.b]
        IN  lastCall.result <=>
               /\ a.fRenderTarget = b.fRenderTarget
               /\ Len(a.fFragmentProcessors) = Len(b.fFragmentProcessors)
               /\ a.fNumColorProcessors = b.fNumColorProcessors
               /\ a.fScissorState = b.fScissorState
               /\ a.fWindowRectsState = b.fWindowRectsState
               /\ a.fFlags = b.fFlags
               /\ a.fUserStencilSettings = b.fUserStencilSettings
               /\ a.fDrawFace = b.fDrawFace
               /\ (a.fXferProcessor # NullXP \/ b.fXferProcessor # NullXP)
                      => XPisEqual(getXferProcessor(a), getXferProcessor(b))
               /\ \A i \in 1..Len(a.fFragmentProcessors) :
                      FPisEqual(a.fFragmentProcessors[i], b.fFragmentProcessors[i])

\* Two pipelines that differ in their destination texture only compare
\* equal.
C6_Witness ==
    /\ lastCall.op = "AreEqual"
    /\ lastCall.result
    /\ pipe[lastCall.a].fDstTexture # pipe[lastCall.b].fDstTexture
    /\ Len(pipe[lastCall.a].fFragmentProcessors) = 2

\* C7: no step changes a constructed pipeline; addDependenciesTo changes
\* the op-list of its render target only, and AreEqual changes no op-list.
C7_Immutable ==
    [][/\ \A s \in DOMAIN pipe : s \in DOMAIN pipe' /\ pipe'[s] = pipe[s]
       /\ depCalls' # depCalls =>
              /\ DOMAIN pipe' = DOMAIN pipe
              /\ \A rt \in RenderTargets \ {lastCall'.rt} : opList'[rt] = opList[rt]
       /\ depCalls' = depCalls => opList' = opList]_vars

\* Both pipelines exist, dependencies were registered and the pipelines were
\* then compared.
C7_Witness ==
    /\ DOMAIN pipe = Slots
    /\ depCalls > 0
    /\ \E rt \in RenderTargets : Len(opList[rt]) > 0
    /\ lastCall.op = "AreEqual"

\* C8: hasMixedSamples is isMixedSampled() and (hardware AA requested or the
\* pipeline's stencil-enabled flag); with a factory the factory's non-null
\* processor is stored, without one the src-over result, which alone may be
\* null.
C8_XferProcessor ==
    \A s \in Built :
        LET args == initLog[s].args
            mixed == initLog[s].hasMixedSamples
            xpFactory == args.fProcessors.xpFactory
        IN  /\ mixed <=> /\ isMixedSampled(args.fRenderTarget)
                         /\ \/ kHWAntialias_Flag \in args.fFlags
                            \/ kStencilEnabled_Flag \in pipe[s].fFlags
            /\ xpFactory # Null =>
                   /\ initLog[s].xpPath = "xpFactory"
                   /\ pipe[s].fXferProcessor
                          = createXferProcessor(xpFactory, args.fInputCoverage, mixed)
                   /\ pipe[s].fXferProcessor # NullXP
            /\ xpFactory = Null =>
                   /\ initLog[s].xpPath = "srcOver"
                   /\ pipe[s].fXferProcessor
                          = CreateSrcOverXferProcessor(args.fInputCoverage, mixed)

\* A mixed-sampled target without hardware AA whose stencil is enabled: the
\* custom factory is handed hasMixedSamples = true.
C8_Witness ==
    \E s \in Built :
        /\ initLog[s].args.fRenderTarget = "rtMixed"
        /\ kHWAntialias_Flag \notin initLog[s].args.fFlags
        /\ kStencilEnabled_Flag \notin initLog[s].args.fFlags
        /\ initLog[s].args.fProcessors.xpFactory = "custom"
        /\ pipe[s].fXferProcessor.kind = "custom"
        /\ pipe[s].fXferProcessor.hasMixedSamples

\* C9: with a clip the scissor and window-rectangle states are the clip's
\* and a stencil clip sets the stencil-clip flag; without a clip both states
\* are the defaults, the stencil-clip flag is as requested and no clip
\* coverage processor is in the sequence.
C9_ClipState ==
    \A s \in Built :
        LET args == initLog[s].args
            clip == args.fAppliedClip
            p == pipe[s]
        IN  IF clip.applied
            THEN /\ p.fScissorState = clip.scissorState
                 /\ p.fWindowRectsState = clip.windowRectsState
                 /\ clip.hasStencilClip => kHasStencilClip_Flag \in p.fFlags
            ELSE /\ p.fScissorState = "disabled"
                 /\ p.fWindowRectsState = "disabled"
                 /\ (kHasStencilClip_Flag \in p.fFlags)
                        <=> (kHasStencilClip_Flag \in args.fFlags)
                 /\ \A k \in 1..Len(p.fFragmentProcessors) :
                        p.fFragmentProcessors[k] # ClipFP
                 /\ \A j \in 1..Len(initLog[s].writes) :
                        initLog[s].writes[j].fp # ClipFP

\* A clip with a scissor, window rectangles, a stencil clip and a coverage
\* processor: the flag is set and the clip's processor is the last entry.
C9_Witness ==
    \E s \in Built :
        LET clip == initLog[s].args.fAppliedClip
            p == pipe[s]
        IN  /\ clip.applied /\ clip.hasStencilClip
            /\ kHasStencilClip_Flag \notin initLog[s].args.fFlags
            /\ clip.clipCoverageFragmentProcessor = ClipFP
            /\ p.fScissorState = "rect" /\ p.fWindowRectsState = "exclusive"
            /\ kHasStencilClip_Flag \in p.fFlags
            /\ p.fFragmentProcessors[Len(p.fFragmentProcessors)] = ClipFP

\* C10: for every record, also one whose analysis reports more eliminations
\* than there are color processors, 0 <= fNumColorProcessors <= the total
\* count, the allocated size is (color - eliminated) + coverage + clip, and
\* the fill writes each index below that size once and none at or above it.
C10_FillInBounds ==
    \A s \in Built :
        LET args == initLog[s].args
            size == initLog[s].allocated
            writes == initLog[s].writes
        IN  /\ 0 <= pipe[s].fNumColorProcessors
            /\ pipe[s].fNumColorProcessors <= size
            /\ size = (Len(args.fProcessors.color) - Eliminated(args))
                      + Len(args.fProcessors.coverage) + Len(ClipTail(args))
            /\ \A j \in 1..Len(writes) : writes[j].idx < size
            /\ \A k \in 0..(size - 1) :
                   Cardinality({j \in 1..Len(writes) : writes[j].idx = k}) = 1

====
